---- MODULE Spec2Model ----
(***************************************************************************)
(* Model of GEMstack/onboard/execution/execution.py: the ComponentExecutor *)
(* polling scheduler and the ExecutorBase.run pipeline state machine.      *)
(*                                                                         *)
(* Time is counted in integer quanta.  A component's update is modelled by *)
(* its outcome: "val" (a result of the declared shape), "bad" (a result of *)
(* another shape), "none" (returns None), "exc" (raises an Exception whose *)
(* traceback text has no brace) and "excfmt" (raises an Exception whose    *)
(* traceback text contains '{' or '}').                                    *)
(***************************************************************************)
EXTENDS Integers, Sequences, FiniteSets, TLC

\* ---------------------------------------------------------------- bounds
MaxT == 1            \* the clock does not advance beyond MaxT
MaxInterrupts == 2   \* KeyboardInterrupts delivered during a run
MaxDeviations == 1   \* component updates with another outcome than the nominal one
MaxRequests == 1     \* pipeline switches requested by the subclass update()
MaxPollT == 20       \* an executor polled alone at a fixed period: the last poll time
MaxPeriod == 4       \* ... and the longest period
MaxJitterT == 6      \* an executor polled alone at irregular times: the last poll time
MaxStep == 2         \* ... and the longest time between two polls
MaxGraphLen == 2     \* entries of a computation-graph descriptor
MaxMakeCalls == 3    \* calls of make_component on one executor
MaxFaultTicks == 4   \* ticks over which the hardware faults are followed
MaxDt == 2           \* the longest period of a component of a configured executor

\* ------------------------------------------------------- the configuration
NoTime == -1           \* None, for a time
NoSteps == 0           \* None, for the argument numsteps of validate_sensors

COMPONENT_ORDER == <<"gnss", "lidar", "planner", "ctrl", "vlog", "slog">>

Comps == {"gnss", "lidar", "planner", "ctrl", "vlog", "slog"}

Fields == {"vehicle", "agents", "route", "trajectory"}

\* ComponentExecutor.output = c.state_outputs()
output(c) ==
    CASE c = "gnss" -> <<"vehicle">>
      [] c = "lidar" -> <<"agents">>
      [] c = "planner" -> <<"route", "trajectory">>
      [] c = "radar" -> <<"agents">>
      [] OTHER -> << >>

\* ComponentExecutor.dt = 1.0/rate, 0.0 when rate() is None
dt(c) ==
    CASE c = "vlog" -> 1
      [] c = "imu" -> 2
      [] c = "radar" -> 3
      [] OTHER -> 0

\* ComponentExecutor.essential (descriptor key 'essential', default True)
essential(c) == c \notin {"lidar", "slog"}

\* ExecutorBase.always_run_components, in insertion order: "slog" is the state
\* logger added by log_state, "vlog" a logging component built by
\* make_component and added by always_run
always_run_components == <<"slog", "vlog">>

\* ExecutorBase.all_components, in insertion order: the executors built by
\* make_component.  The state logger is wrapped by log_state directly and is
\* not a member.
all_components == <<"gnss", "lidar", "planner", "ctrl", "vlog">>

\* ExecutorBase.pipelines: name -> (perception, planning, other)
PipelineNames == {"drive", "park", "recovery"}

\* (each phase is a dict: its keys in insertion order)
pipelines(p) ==
    CASE p = "drive" -> [perception |-> <<"lidar", "gnss">>, planning |-> <<"planner">>, other |-> <<"ctrl">>]
      [] p = "park" -> [perception |-> << >>, planning |-> << >>, other |-> <<"ctrl">>]
      [] OTHER -> [perception |-> <<"gnss">>, planning |-> << >>, other |-> <<"ctrl">>]

\* what a subclass update() may return: None, a registered name, another name
None == "None"
UpdateReturns == {None, "drive", "park", "recovery", "bogus"}

\* the outcomes of c.update that differ in what update_now does with them
Outcomes(c) ==
    IF Len(output(c)) > 1 THEN {"val", "bad", "none", "exc", "excfmt"}
    ELSE {"val", "none", "exc", "excfmt"}

\* the outcome of an update in which nothing goes wrong
Nominal(c) == IF Len(output(c)) = 0 THEN "none" ELSE "val"

\* the values of c.healthy() after an update with outcome oc: a component
\* deviates either in what its update does or in what it reports
Healths(c, oc) == IF oc = Nominal(c) THEN BOOLEAN ELSE {TRUE}

Range(s) == {s[i] : i \in 1..Len(s)}

VARIABLES
    pc,                 \* position of ExecutorBase.run
    kind,               \* "Standard": StandardExecutor, "Custom": a subclass overriding update/done
    k,                  \* position of update_components in its order
    current_pipeline,   \* ExecutorBase.current_pipeline
    mission,            \* state.mission.type
    t,                  \* state.t
    bb,                 \* blackboard fields: who wrote the field last
    upd,                \* blackboard <field>_update_time
    had_exception,      \* ComponentExecutor.had_exception
    chealthy,           \* value of component.healthy()
    next_update_time,   \* ComponentExecutor.next_update_time
    last_update_time,   \* ComponentExecutor.last_update_time
    num_overruns,       \* ComponentExecutor.num_overruns
    overrun_amount,     \* ComponentExecutor.overrun_amount
    started,            \* number of start() calls that returned, per executor
    stopped,            \* number of stop() calls that returned, per executor
    next,               \* value returned by run_until_switch
    exit_reasons,       \* sequence of set_exit_reason calls
    events,             \* events recorded by the last step
    ran,                \* update_now invocations of the current tick, in order
    raised,             \* components whose update raised in the last step
    wrote,              \* <<component, field>> written in the last step
    begun, ended, closed, \* begin() / end() / logging_manager.close() calls
    ninterrupts,        \* KeyboardInterrupts delivered so far
    numsteps,           \* validate_sensors: the argument numsteps
    num_attempts,       \* validate_sensors: the local num_attempts
    sensors_working,    \* validate_sensors: the local sensors_working
    ndeviations,        \* updates with a non-nominal outcome so far
    nrequests,          \* switches requested by the subclass update() so far
    last,               \* name of the last step taken
    loaded,             \* the globals COMPONENT_ORDER and COMPONENT_SETTINGS once loaded
    phase,              \* validate_components: the argument components
    provided,           \* validate_components: the argument provided
    verdict,            \* validate_components: what the call ended with
    period,             \* period of the clock that drives an executor polled alone
    polls,              \* times at which that executor was polled
    calls,              \* times at which update_now ran, per executor
    component_cache,    \* make_component: self.all_components, identifier -> executor
    nconstructed,       \* make_component: components constructed by make_class so far
    made,               \* make_component: the calls so far, each with what it returned
    require_engaged,    \* the setting run.require_engaged
    last_hardware_faults, \* ExecutorBase.last_hardware_faults
    fault_hist,         \* the values of vehicle_interface.hardware_faults(), tick by tick
    fault_events,       \* the faults for which an event was recorded, tick by tick
    at_rest,            \* the vehicle has come to rest for good, or has disengaged
    dtcfg,              \* dt of the executors of a configured executor
    dt_min              \* the period of the looper in use

vars == <<pc, kind, k, current_pipeline, mission, t,
          bb, upd, had_exception, chealthy, next_update_time, last_update_time,
          num_overruns, overrun_amount, started, stopped, next, exit_reasons,
          events, ran, raised, wrote, begun, ended, closed, ninterrupts,
          numsteps, num_attempts, sensors_working, ndeviations, nrequests, last,
          loaded, phase, provided, verdict, period, polls, calls,
          component_cache, nconstructed, made,
          require_engaged, last_hardware_faults, fault_hist, fault_events,
          at_rest, dtcfg, dt_min>>

\* the variables of make_component, of check_for_hardware_faults, of the
\* vehicle and of the looper's period
mvars == <<component_cache, nconstructed, made>>
fvars == <<require_engaged, last_hardware_faults, fault_hist, fault_events>>
pvars == <<dtcfg, dt_min>>
xvars == <<mvars, fvars, at_rest, pvars>>

\* the variables of run other than its position and the name of its last step
rvars == <<kind, k, current_pipeline, mission, t, bb, upd, had_exception, chealthy,
           next_update_time, last_update_time, num_overruns, overrun_amount,
           started, stopped, next, exit_reasons, events, ran, raised, wrote,
           begun, ended, closed, ninterrupts, numsteps, num_attempts,
           sensors_working, ndeviations, nrequests>>

\* the variables of the computation graph and of an executor polled alone
gvars == <<loaded, phase, provided, verdict>>
svars == <<period, polls, calls>>

\* the variables that run leaves alone: the computation graph as loaded before
\* the executor is built, and the record of an executor polled on its own
hvars == <<loaded, phase, provided, verdict, period, polls, calls, xvars>>

\* nothing recorded
NotLoaded == [order |-> << >>, settings |-> << >>]
NoVerdict == [res |-> "none", msg |-> "", k |-> "", i |-> "", out |-> {}]
NoneMade == component_cache = << >> /\ nconstructed = 0 /\ made = << >>
NoFaultsSeen == /\ require_engaged = FALSE /\ last_hardware_faults = {}
                /\ fault_hist = << >> /\ fault_events = << >>
NoPeriod == dtcfg = << >> /\ dt_min = NoTime
Unused == /\ loaded = NotLoaded /\ phase = << >> /\ provided = {}
          /\ verdict = NoVerdict /\ period = 0 /\ polls = {} /\ calls = << >>
          /\ NoneMade /\ NoFaultsSeen /\ at_rest = FALSE /\ NoPeriod


\* ------------------------------------------------------ ComponentExecutor

\* the executor-side state threaded through a phase
ExState ==
    [bb |-> bb, upd |-> upd, had_exception |-> had_exception, chealthy |-> chealthy,
     next_update_time |-> next_update_time, last_update_time |-> last_update_time,
     num_overruns |-> num_overruns, overrun_amount |-> overrun_amount,
     ran |-> << >>, raised |-> {}, wrote |-> {}, crashed |-> FALSE]

\* (variant: the component's own report only)
healthy_ComponentOnly(S, c) == S.chealthy[c]

\* ComponentExecutor.healthy
healthy(S, c) == S.chealthy[c] /\ ~S.had_exception[c]

\* (variant: the fields are written without their update-times)
WriteOutputs_NoStamp(S, c, tt) ==
    [S EXCEPT !.bb = [f \in Fields |-> IF f \in Range(output(c)) THEN c ELSE @[f]],
              !.wrote = @ \cup {<<c, f>> : f \in Range(output(c))}]

\* the writes of update_now for a result res that is not None
WriteOutputs(S, c, tt) ==
    [S EXCEPT !.bb = [f \in Fields |-> IF f \in Range(output(c)) THEN c ELSE @[f]],
              !.upd = [f \in Fields |-> IF f \in Range(output(c)) THEN tt ELSE @[f]],
              !.wrote = @ \cup {<<c, f>> : f \in Range(output(c))}]

\* ComponentExecutor._do_update followed by the rest of update_now.
\* oc is the outcome of c.update, h the value of c.healthy() afterwards.
update_now(S, c, tt, oc, h) ==
    LET S0 == [S EXCEPT !.ran = Append(@, c), !.chealthy[c] = h] IN
    CASE oc = "excfmt" ->
            \* executor_debug_exception formats the traceback text: str.format
            \* raises inside the except clause, before had_exception is set
            [S0 EXCEPT !.raised = @ \cup {c}, !.crashed = TRUE]
      [] oc = "exc" ->
            [S0 EXCEPT !.raised = @ \cup {c}, !.had_exception[c] = TRUE]
      [] oc = "none" -> S0
      [] oc = "val" ->
            IF Len(output(c)) >= 1 THEN WriteOutputs(S0, c, tt)
            ELSE [S0 EXCEPT !.crashed = TRUE]      \* self.output[0]: IndexError
      [] OTHER ->  \* "bad"
            IF Len(output(c)) = 1 THEN WriteOutputs(S0, c, tt)
            ELSE [S0 EXCEPT !.crashed = TRUE]      \* assert len(res) == len(self.output)

\* (variant: no rate limit)
update_Always(S, c, tt, oc, h) == update_now(S, c, tt, oc, h)

\* (variant: due only after next_update_time)
update_Strict(S, c, tt, oc, h) ==
    IF S.next_update_time[c] = NoTime \/ tt > S.next_update_time[c]
    THEN [update_now(S, c, tt, oc, h) EXCEPT !.last_update_time[c] = tt,
                                            !.next_update_time[c] = tt + dt(c)]
    ELSE S

\* (variant: an overrun does not move next_update_time)
update_NoCatchUp(S, c, tt, oc, h) ==
    IF S.next_update_time[c] = NoTime \/ tt >= S.next_update_time[c]
    THEN [update_now(S, c, tt, oc, h) EXCEPT
             !.last_update_time[c] = tt,
             !.next_update_time[c] = IF S.next_update_time[c] = NoTime THEN tt + dt(c)
                                     ELSE S.next_update_time[c] + dt(c)]
    ELSE S

\* ComponentExecutor.update
update(S, c, tt, oc, h) ==
    IF S.next_update_time[c] = NoTime \/ tt >= S.next_update_time[c]
    THEN LET S1 == update_now(S, c, tt, oc, h)
             n1 == IF S.next_update_time[c] = NoTime THEN tt + dt(c)
                   ELSE S.next_update_time[c] + dt(c)
             S2 == [S1 EXCEPT !.last_update_time[c] = tt, !.next_update_time[c] = n1]
         IN  IF S1.crashed THEN S1
             ELSE IF n1 < tt /\ dt(c) > 0
                  THEN [S2 EXCEPT !.num_overruns[c] = @ + 1,
                                  !.overrun_amount[c] = @ + (tt - n1),
                                  !.next_update_time[c] = tt + dt(c)]
                  ELSE S2
    ELSE S

\* ----------------------------------------------------------- ExecutorBase

RECURSIVE SelectOrder(_, _)
\* [k for k in COMPONENT_ORDER if k in components]
SelectOrder(order, components) ==
    IF order = << >> THEN << >>
    ELSE IF Head(order) \in Range(components)
         THEN <<Head(order)>> \o SelectOrder(Tail(order), components)
         ELSE SelectOrder(Tail(order), components)

\* (variant: the dict's own order whatever force is)
UpdateOrder_Insertion(components, force) == components

\* update_components: the order in which the components are visited
UpdateOrder(components, force) ==
    IF force THEN components ELSE SelectOrder(COMPONENT_ORDER, components)

\* (variant: any unhealthy component makes the phase return)
FaultReturn_AnyUnhealthy(components) ==
    \E c \in Range(components) : ~healthy(ExState, c) /\ current_pipeline # "recovery"

\* (variant: the fault policy without the test of the current pipeline)
FaultReturn_InRecovery(components) ==
    \E c \in Range(components) : ~healthy(ExState, c) /\ essential(c)

\* the fault policy of run_until_switch after a phase
FaultReturn(components) ==
    \E c \in Range(components) :
        ~healthy(ExState, c) /\ essential(c) /\ current_pipeline # "recovery"

\* (variant: the description is not recorded)
set_exit_reason_Silent(reasons, description) == reasons

\* ExecutorBase.set_exit_reason: the exit events recorded by the logging manager
set_exit_reason(reasons, description) == Append(reasons, description)

\* bool(looper) of a TimedLooper: true until the looper is stopped by an
\* interrupt
TimedLooper == BOOLEAN

\* vehicle_interface.time() at the head of an iteration: the clock has advanced
\* by one quantum since the iteration before, until it reaches MaxT; from then
\* on less than a quantum passes between two readings
Time(tt) == {IF tt < MaxT THEN tt + 1 ELSE tt}

Due(c) == next_update_time[c] = NoTime \/ t >= next_update_time[c]

Commit(S) ==
    /\ bb' = S.bb
    /\ upd' = S.upd
    /\ had_exception' = S.had_exception
    /\ chealthy' = S.chealthy
    /\ next_update_time' = S.next_update_time
    /\ last_update_time' = S.last_update_time
    /\ num_overruns' = S.num_overruns
    /\ overrun_amount' = S.overrun_amount
    /\ ran' = ran \o S.ran
    /\ raised' = S.raised
    /\ wrote' = S.wrote

Quiet == /\ raised' = {} /\ wrote' = {} /\ events' = {}

Init ==
    /\ pc = "start"
    /\ kind \in {"Standard", "Custom"}
    /\ k = 1
    /\ current_pipeline = "drive"
    /\ mission = "unset"
    /\ t = 0
    /\ bb = [f \in Fields |-> "zero"]
    /\ upd = [f \in Fields |-> NoTime]
    /\ had_exception = [c \in Comps |-> FALSE]
    /\ chealthy = [c \in Comps |-> TRUE]
    /\ next_update_time = [c \in Comps |-> NoTime]
    /\ last_update_time = [c \in Comps |-> NoTime]
    /\ num_overruns = [c \in Comps |-> 0]
    /\ overrun_amount = [c \in Comps |-> 0]
    /\ started = [c \in Comps |-> 0]
    /\ stopped = [c \in Comps |-> 0]
    /\ next = None
    /\ exit_reasons = << >>
    /\ events = {}
    /\ ran = << >>
    /\ raised = {}
    /\ wrote = {}
    /\ begun = 0 /\ ended = 0 /\ closed = 0
    /\ ninterrupts = 0
    /\ numsteps = NoSteps
    /\ num_attempts = 0
    /\ sensors_working = FALSE
    /\ ndeviations = 0
    /\ nrequests = 0
    /\ last = "init"
    /\ Unused

\* update_components, lines 721-730: the update of the k-th component
UpdateStep(here, components, force) ==
    /\ pc = here
    /\ k <= Len(UpdateOrder(components, force))
    /\ last' = here
    /\ events' = {}
    /\ LET c == UpdateOrder(components, force)[k] IN
       \E oc \in Outcomes(c) : \E h \in Healths(c, oc) :
         LET nominal == (oc = Nominal(c) /\ h)
             S == update(ExState, c, t, oc, h) IN
         /\ Due(c) \/ nominal
         /\ nominal \/ ndeviations < MaxDeviations
         /\ ndeviations' = IF nominal THEN ndeviations ELSE ndeviations + 1
         /\ Commit(S)
         /\ k' = k + 1
         /\ pc' = IF S.crashed THEN "crashed" ELSE here
    /\ UNCHANGED <<hvars, kind, current_pipeline, mission, t, started, stopped, begun, ended,
                   closed, next, exit_reasons, ninterrupts, numsteps, num_attempts,
                   sensors_working, nrequests>>

\* the name of the step that checks a phase for faults
CheckOf(here) ==
    CASE here = "perception" -> "perception_check"
      [] here = "planning" -> "planning_check"
      [] here = "other" -> "other_check"
      [] OTHER -> "always_check"

\* run_until_switch: the loop over a phase's components after update_components
FaultCheck(here, components, force, after) ==
    /\ pc = here
    /\ k > Len(UpdateOrder(components, force))
    /\ last' = CheckOf(here)
    /\ Quiet
    /\ k' = 1
    /\ IF FaultReturn(components)
       THEN pc' = "resolve" /\ next' = "recovery"
       ELSE pc' = after /\ next' = next
    /\ UNCHANGED <<hvars, kind, current_pipeline, mission, t, bb, upd, had_exception, chealthy,
                   next_update_time, last_update_time, num_overruns, overrun_amount,
                   started, stopped, begun, ended, closed, exit_reasons, ran,
                   ninterrupts, numsteps, num_attempts, sensors_working, ndeviations, nrequests>>

\* the executors of all_components whose call (start or stop) returned when
\* the loop over all_components got through its first n entries
Counted(count, n) ==
    [c \in Comps |-> IF \E i \in 1..n : all_components[i] = c THEN count[c] + 1 ELSE count[c]]

\* run, lines 503-512: the loop of start() over all_components, which an
\* initialize() that raises leaves together with run; then the blackboard is
\* created with mission type IDLE and validate_sensors() is called
StartComponents ==
    /\ pc = "start"
    /\ \E n \in 0..Len(all_components) :
         /\ started' = Counted(started, n)
         /\ pc' = IF n = Len(all_components) THEN "vs_loop" ELSE "crashed"
         /\ mission' = IF n = Len(all_components) THEN "IDLE" ELSE mission
    /\ last' = "start"
    /\ Quiet
    /\ UNCHANGED <<hvars, kind, k, current_pipeline, t, bb, upd, had_exception, chealthy,
                   next_update_time, last_update_time, num_overruns, overrun_amount,
                   stopped, begun, ended, closed, next, exit_reasons, ran, ninterrupts,
                   numsteps, num_attempts, sensors_working, ndeviations, nrequests>>

\* what run does with the value of validate_sensors: lines 513-515 and 523
\* for the call validate_sensors(), lines 546-548 for validate_sensors(1)
Validated(result) ==
    IF numsteps = NoSteps
    THEN /\ pc' = IF result THEN "begin" ELSE "stopping"
         /\ events' = IF result THEN {} ELSE {"Sensor validation failed"}
         /\ exit_reasons' = IF result THEN exit_reasons
                            ELSE set_exit_reason(exit_reasons, "Sensor validation failed")
         /\ UNCHANGED current_pipeline
         /\ numsteps' = NoSteps /\ num_attempts' = 0
    ELSE /\ pc' = "enter"
         /\ events' = IF result THEN {}
                      ELSE {"Sensors in desired pipeline are not working, switching to recovery"}
         /\ current_pipeline' = IF result THEN current_pipeline ELSE "recovery"
         /\ UNCHANGED exit_reasons
         /\ numsteps' = NoSteps /\ num_attempts' = 0

\* validate_sensors, lines 603-619: the early return, the loop test and the
\* head of an iteration
validate_sensors_loop ==
    /\ pc = "vs_loop"
    /\ last' = "vs_loop"
    /\ raised' = {} /\ wrote' = {}
    /\ \E looper \in TimedLooper :
         IF pipelines(current_pipeline).perception # << >> /\ looper /\ ~sensors_working
         THEN /\ t' \in Time(t)
              /\ ran' = << >>
              /\ pc' = "vs_perception"
              /\ events' = {}
              /\ UNCHANGED <<current_pipeline, exit_reasons, numsteps, num_attempts>>
         ELSE \* return True
              /\ Validated(TRUE)
              /\ UNCHANGED <<t, ran>>
    /\ k' = 1
    /\ UNCHANGED <<hvars, kind, mission, bb, upd, had_exception, chealthy, next_update_time,
                   last_update_time, num_overruns, overrun_amount, started, stopped,
                   begun, ended, closed, next, ninterrupts, sensors_working, ndeviations, nrequests>>

\* validate_sensors, line 621
validate_sensors_perception ==
    UpdateStep("vs_perception", pipelines(current_pipeline).perception, FALSE)

\* validate_sensors, line 622
validate_sensors_working ==
    /\ pc = "vs_perception"
    /\ k > Len(UpdateOrder(pipelines(current_pipeline).perception, FALSE))
    /\ sensors_working' =
          \A c \in Range(pipelines(current_pipeline).perception) : healthy(ExState, c)
    /\ pc' = "vs_always"
    /\ k' = 1
    /\ last' = "vs_working"
    /\ Quiet
    /\ UNCHANGED <<hvars, kind, current_pipeline, mission, t, bb, upd, had_exception, chealthy,
                   next_update_time, last_update_time, num_overruns, overrun_amount,
                   started, stopped, begun, ended, closed, next, exit_reasons, ran,
                   ninterrupts, numsteps, num_attempts, ndeviations, nrequests>>

\* validate_sensors, line 624
validate_sensors_always == UpdateStep("vs_always", always_run_components, TRUE)

\* validate_sensors, lines 625-634: the end of an iteration
validate_sensors_attempt ==
    /\ pc = "vs_always"
    /\ k > Len(UpdateOrder(always_run_components, TRUE))
    /\ last' = "vs_attempt"
    /\ raised' = {} /\ wrote' = {}
    /\ k' = 1
    /\ IF numsteps # NoSteps /\ num_attempts + 1 >= numsteps
       THEN Validated(FALSE)
       ELSE /\ pc' = "vs_loop"
            /\ events' = {}
            \* num_attempts += 1; the count is kept only when it is compared
            /\ num_attempts' = IF numsteps = NoSteps THEN num_attempts ELSE num_attempts + 1
            /\ UNCHANGED <<current_pipeline, exit_reasons, numsteps>>
    /\ UNCHANGED <<hvars, kind, mission, t, bb, upd, had_exception, chealthy, next_update_time,
                   last_update_time, num_overruns, overrun_amount, started, stopped,
                   begun, ended, closed, next, ran, ninterrupts, sensors_working,
                   ndeviations, nrequests>>

VsPcs == {"vs_loop", "vs_perception", "vs_always"}

\* an exception unwinds run_until_switch / validate_sensors: their locals are gone
DropLocals ==
    /\ k' = 1 /\ ran' = << >> /\ next' = None
    /\ numsteps' = NoSteps /\ num_attempts' = 0 /\ sensors_working' = FALSE

\* run, lines 516-521: KeyboardInterrupt during validate_sensors()
InterruptValidation ==
    /\ pc \in VsPcs
    /\ numsteps = NoSteps
    /\ ninterrupts < MaxInterrupts
    /\ ninterrupts' = ninterrupts + 1
    /\ events' = {"Ctrl+C interrupt during sensor validation"}
    /\ raised' = {} /\ wrote' = {}
    /\ exit_reasons' = set_exit_reason(exit_reasons, "Sensor validation failed")
    /\ pc' = "stopping"
    /\ last' = "interrupt_validation"
    /\ DropLocals
    /\ UNCHANGED <<hvars, kind, current_pipeline, mission, t, bb, upd, had_exception, chealthy,
                   next_update_time, last_update_time, num_overruns, overrun_amount,
                   started, stopped, begun, ended, closed, ndeviations, nrequests>>

\* run, line 524
Begin ==
    /\ pc = "begin"
    /\ begun' = begun + 1
    /\ pc' = "enter"
    /\ last' = "begin"
    /\ Quiet
    /\ UNCHANGED <<hvars, kind, k, current_pipeline, mission, t, bb, upd, had_exception, chealthy,
                   next_update_time, last_update_time, num_overruns, overrun_amount,
                   started, stopped, ended, closed, next, exit_reasons, ran,
                   ninterrupts, numsteps, num_attempts, sensors_working, ndeviations, nrequests>>

\* (variant: the mission type is left as it is)
EnterMission_Keep(pipeline, m) == m

\* run_until_switch, lines 639-640: state.mission.type on entry
EnterMission(pipeline, m) == IF pipeline = "recovery" THEN "RECOVERY_STOP" ELSE m

\* run, lines 526-530, and run_until_switch, lines 639-645
Enter ==
    /\ pc = "enter"
    \* line 526 reads the clock; the value is overwritten at line 647 before
    \* anything reads state.t, so the reading is taken at the first tick
    /\ t' = t
    /\ mission' = EnterMission(current_pipeline, mission)
    /\ pc' = "tick"
    /\ last' = "enter"
    /\ Quiet
    /\ ran' = << >>
    /\ sensors_working' = FALSE      \* the local of validate_sensors is gone
    /\ UNCHANGED <<hvars, kind, k, current_pipeline, bb, upd, had_exception, chealthy,
                   next_update_time, last_update_time, num_overruns, overrun_amount,
                   started, stopped, begun, ended, closed, next, exit_reasons,
                   ninterrupts, numsteps, num_attempts, ndeviations, nrequests>>

\* (variant: the current pipeline is not looked at)
done_AnyPipeline(halted, custom) == IF kind = "Standard" THEN halted ELSE custom

\* (variant: never done)
done_Never(halted, custom) == IF kind = "Standard" THEN FALSE ELSE custom

\* done() of the subclass: StandardExecutor.done, or any value for an override.
\* halted: the vehicle's last reading has |speed| < 1e-3 or it reports
\* 'disengaged'
done(halted, custom) ==
    IF kind = "Standard" THEN current_pipeline = "recovery" /\ halted ELSE custom

\* what StandardExecutor.done can read from the vehicle interface: anything
\* while the vehicle moves, and a halt once it is at rest for good
HaltedNow == IF at_rest THEN {TRUE} ELSE BOOLEAN

\* run_until_switch, lines 646-655: the loop test and the head of a tick.
\* The step is named "tick" when the looper was true, so that done() was
\* evaluated, and "looper_stopped" when it was false.
Tick ==
    /\ pc = "tick"
    /\ Quiet
    /\ k' = 1
    /\ \E looper \in TimedLooper, halted \in HaltedNow, custom \in BOOLEAN :
         /\ last' = IF looper THEN "tick" ELSE "looper_stopped"
         /\ IF looper /\ ~done(halted, custom)
            THEN /\ t' \in Time(t)
                 /\ ran' = << >>
                 /\ pc' = "perception"
                 /\ next' = next
            ELSE \* return None
                 /\ next' = None
                 /\ pc' = "resolve"
                 /\ UNCHANGED <<t, ran>>
    /\ UNCHANGED <<hvars, kind, current_pipeline, mission, bb, upd, had_exception, chealthy,
                   next_update_time, last_update_time, num_overruns, overrun_amount,
                   started, stopped, begun, ended, closed, exit_reasons,
                   ninterrupts, numsteps, num_attempts, sensors_working, ndeviations, nrequests>>

\* run_until_switch, line 657
PerceptionUpdate == UpdateStep("perception", pipelines(current_pipeline).perception, FALSE)

\* run_until_switch, lines 659-665
PerceptionCheck ==
    FaultCheck("perception", pipelines(current_pipeline).perception, FALSE, "update")

\* run_until_switch, lines 667-670: the subclass update(state)
SubclassUpdate ==
    /\ pc = "update"
    /\ last' = "update"
    /\ Quiet
    /\ \E next_pipeline \in (IF kind = "Standard" THEN {None} ELSE UpdateReturns) :
         IF next_pipeline # None /\ next_pipeline # current_pipeline
         THEN /\ nrequests < MaxRequests
              /\ nrequests' = nrequests + 1
              /\ pc' = "resolve" /\ next' = next_pipeline
              /\ ran' = Append(ran, "update()")
         ELSE /\ pc' = "planning" /\ next' = next
              /\ ran' = Append(ran, "update()")
              /\ UNCHANGED nrequests
    /\ UNCHANGED <<hvars, kind, k, current_pipeline, mission, t, bb, upd, had_exception, chealthy,
                   next_update_time, last_update_time, num_overruns, overrun_amount,
                   started, stopped, begun, ended, closed, exit_reasons,
                   ninterrupts, numsteps, num_attempts, sensors_working, ndeviations>>

\* run_until_switch, line 672
PlanningUpdate == UpdateStep("planning", pipelines(current_pipeline).planning, FALSE)

\* run_until_switch, lines 674-680
PlanningCheck ==
    FaultCheck("planning", pipelines(current_pipeline).planning, FALSE, "other")

\* run_until_switch, line 682
OtherUpdate == UpdateStep("other", pipelines(current_pipeline).other, FALSE)

\* run_until_switch, lines 683-689
OtherCheck == FaultCheck("other", pipelines(current_pipeline).other, FALSE, "always")

\* run_until_switch, line 691
AlwaysRunUpdate == UpdateStep("always", always_run_components, TRUE)

\* run_until_switch, lines 692-698
AlwaysRunCheck == FaultCheck("always", always_run_components, TRUE, "tick")

\* (variant: no fallback for a name that is not registered)
ResolveTarget_NoFallback(name) == name

\* run, lines 535-537: the pipeline a returned name stands for
ResolveTarget(name) == IF name \notin PipelineNames THEN "recovery" ELSE name

\* run, lines 531-545: what run does with the value of run_until_switch
Resolve ==
    /\ pc = "resolve"
    /\ last' = "resolve"
    /\ Quiet
    /\ k' = 1
    /\ IF next = None
       THEN /\ exit_reasons' = set_exit_reason(exit_reasons, "normal exit")
            /\ pc' = "end"
            /\ UNCHANGED <<current_pipeline, numsteps, num_attempts, sensors_working>>
       ELSE IF current_pipeline = "recovery" /\ ResolveTarget(next) = "recovery"
       THEN /\ exit_reasons' = set_exit_reason(exit_reasons, "recovery pipeline not working")
            /\ pc' = "end"
            /\ UNCHANGED <<current_pipeline, numsteps, num_attempts, sensors_working>>
       ELSE /\ current_pipeline' = ResolveTarget(next)
            /\ pc' = "vs_loop"       \* validate_sensors(1)
            /\ numsteps' = 1
            /\ num_attempts' = 0
            /\ sensors_working' = FALSE
            /\ UNCHANGED exit_reasons
    /\ next' = None /\ ran' = << >>     \* locals that are not read again
    /\ UNCHANGED <<hvars, kind, mission, t, bb, upd, had_exception, chealthy, next_update_time,
                   last_update_time, num_overruns, overrun_amount, started, stopped,
                   begun, ended, closed, ninterrupts, ndeviations, nrequests>>

TryPcs == {"tick", "perception", "update", "planning", "other", "always", "resolve"}

\* (variant: every interrupt ends the loop)
InterruptExits_Always(pipeline) == TRUE

\* run, line 550: the interrupt ends the loop
InterruptExits(pipeline) == pipeline = "recovery"

\* run, lines 549-561: KeyboardInterrupt raised inside the try block of the loop
Interrupt ==
    /\ pc \in TryPcs \/ (pc \in VsPcs /\ numsteps # NoSteps)
    /\ ninterrupts < MaxInterrupts
    /\ ninterrupts' = ninterrupts + 1
    /\ last' = "interrupt"
    /\ raised' = {} /\ wrote' = {}
    /\ IF InterruptExits(current_pipeline)
       THEN /\ exit_reasons' = set_exit_reason(exit_reasons, "Ctrl+C interrupt during recovery")
            /\ pc' = "end"
            /\ events' = {}
            /\ UNCHANGED current_pipeline
       ELSE /\ current_pipeline' = "recovery"
            /\ events' = {"Ctrl+C pressed, switching to recovery mode"}
            /\ pc' = "enter"
            /\ UNCHANGED exit_reasons
    /\ DropLocals
    /\ UNCHANGED <<hvars, kind, mission, t, bb, upd, had_exception, chealthy, next_update_time,
                   last_update_time, num_overruns, overrun_amount, started, stopped,
                   begun, ended, closed, ndeviations, nrequests>>

\* run, lines 562-564
End ==
    /\ pc = "end"
    /\ ended' = ended + 1
    /\ events' = {"Mission execution ended"}
    /\ raised' = {} /\ wrote' = {}
    /\ pc' = "stopping"
    /\ last' = "end"
    /\ UNCHANGED <<hvars, kind, k, current_pipeline, mission, t, bb, upd, had_exception, chealthy,
                   next_update_time, last_update_time, num_overruns, overrun_amount,
                   started, stopped, begun, closed, next, exit_reasons, ran,
                   ninterrupts, numsteps, num_attempts, sensors_working, ndeviations, nrequests>>

\* run, lines 567-572: the loop of stop() over all_components, which a
\* cleanup() that raises leaves together with run; then the logging manager
\* is closed
StopComponents ==
    /\ pc = "stopping"
    /\ \E n \in 0..Len(all_components) :
         /\ stopped' = Counted(stopped, n)
         /\ pc' = IF n = Len(all_components) THEN "done" ELSE "crashed"
         /\ closed' = IF n = Len(all_components) THEN closed + 1 ELSE closed
    /\ last' = "stop"
    /\ Quiet
    /\ UNCHANGED <<hvars, kind, k, current_pipeline, mission, t, bb, upd, had_exception, chealthy,
                   next_update_time, last_update_time, num_overruns, overrun_amount,
                   started, begun, ended, next, exit_reasons, ran, ninterrupts,
                   numsteps, num_attempts, sensors_working, ndeviations, nrequests>>

Next ==
    \/ StartComponents
    \/ validate_sensors_loop
    \/ validate_sensors_perception
    \/ validate_sensors_working
    \/ validate_sensors_always
    \/ validate_sensors_attempt
    \/ InterruptValidation
    \/ Begin
    \/ Enter
    \/ Tick
    \/ PerceptionUpdate
    \/ PerceptionCheck
    \/ SubclassUpdate
    \/ PlanningUpdate
    \/ PlanningCheck
    \/ OtherUpdate
    \/ OtherCheck
    \/ AlwaysRunUpdate
    \/ AlwaysRunCheck
    \/ Resolve
    \/ Interrupt
    \/ End
    \/ StopComponents

Spec == Init /\ [][Next]_vars

\* ------------------------------------- a StandardExecutor run to its end
\* run of a StandardExecutor whose vehicle may come to rest (or disengage) and
\* stay so.  run is one thread that takes its next step whenever it has one.

LiveInit == Init /\ kind = "Standard"

\* from now on last_reading.speed is below 1e-3, or 'disengaged' is reported
ComeToRest ==
    /\ pc \notin {"done", "crashed"}
    /\ ~at_rest
    /\ at_rest' = TRUE
    /\ UNCHANGED <<pc, last, rvars, gvars, svars, mvars, fvars, pvars>>

LiveNext == Next \/ ComeToRest

LiveSpec == LiveInit /\ [][LiveNext]_vars /\ WF_vars(Next)

\* ------------------------------------------- an executor polled on its own
\* ComponentExecutor.update called at the times of a clock, as
\* update_components calls it for each executor of a phase: an event-driven
\* executor and executors with dt = 1, 2 and 3 quanta

SchedComps == <<"gnss", "vlog", "imu", "radar">>

RECURSIVE PollEach(_, _, _)
\* update_components, lines 721-727, with updates in which nothing goes wrong
PollEach(S, order, tt) ==
    IF order = << >> THEN S
    ELSE PollEach(update(S, Head(order), tt, Nominal(Head(order)), TRUE), Tail(order), tt)

SchedInit ==
    /\ pc = "poll"
    /\ kind = "Standard"
    /\ k = 1
    /\ current_pipeline = "drive"
    /\ mission = "unset"
    /\ t = 0
    /\ bb = [f \in Fields |-> "zero"]
    /\ upd = [f \in Fields |-> NoTime]
    /\ had_exception = [c \in Range(SchedComps) |-> FALSE]
    /\ chealthy = [c \in Range(SchedComps) |-> TRUE]
    /\ next_update_time = [c \in Range(SchedComps) |-> NoTime]
    /\ last_update_time = [c \in Range(SchedComps) |-> NoTime]
    /\ num_overruns = [c \in Range(SchedComps) |-> 0]
    /\ overrun_amount = [c \in Range(SchedComps) |-> 0]
    /\ started = [c \in Range(SchedComps) |-> 1]
    /\ stopped = [c \in Range(SchedComps) |-> 0]
    /\ next = None
    /\ exit_reasons = << >>
    /\ events = {}
    /\ ran = << >>
    /\ raised = {}
    /\ wrote = {}
    /\ begun = 0 /\ ended = 0 /\ closed = 0
    /\ ninterrupts = 0
    /\ numsteps = NoSteps
    /\ num_attempts = 0
    /\ sensors_working = FALSE
    /\ ndeviations = 0
    /\ nrequests = 0
    /\ last = "init"
    /\ loaded = NotLoaded /\ phase = << >> /\ provided = {}
    /\ verdict = NoVerdict
    /\ period \in 0..MaxPeriod       \* 0: the poll times are irregular
    /\ polls = {}
    /\ calls = [c \in Range(SchedComps) |-> {}]
    /\ NoneMade /\ NoFaultsSeen /\ at_rest = FALSE /\ NoPeriod

\* one poll of every executor at time tt
PollAt(tt) ==
    LET S == PollEach(ExState, SchedComps, tt) IN
    /\ t' = tt
    /\ polls' = polls \cup {tt}
    /\ calls' = [c \in Range(SchedComps) |->
                   IF c \in Range(S.ran) THEN calls[c] \cup {tt} ELSE calls[c]]
    /\ bb' = S.bb
    /\ upd' = S.upd
    /\ had_exception' = S.had_exception
    /\ chealthy' = S.chealthy
    /\ next_update_time' = S.next_update_time
    /\ last_update_time' = S.last_update_time
    /\ num_overruns' = S.num_overruns
    /\ overrun_amount' = S.overrun_amount
    /\ ran' = S.ran
    /\ raised' = S.raised
    /\ wrote' = S.wrote
    /\ last' = "poll"
    /\ UNCHANGED <<pc, kind, k, current_pipeline, mission, started, stopped, next,
                   exit_reasons, events, begun, ended, closed, ninterrupts, numsteps,
                   num_attempts, sensors_working, ndeviations, nrequests,
                   loaded, phase, provided, verdict, period, xvars>>

\* the clock of a loop with a fixed period and no drift
PollPeriodic ==
    /\ pc = "poll" /\ period > 0
    /\ LET tt == IF polls = {} THEN t ELSE t + period IN
       /\ tt <= MaxPollT
       /\ PollAt(tt)

\* a clock that is only known not to go back
PollJitter ==
    /\ pc = "poll" /\ period = 0
    /\ \E d \in 0..MaxStep :
         LET tt == IF polls = {} THEN t ELSE t + d IN
         /\ tt <= MaxJitterT
         /\ PollAt(tt)

SchedNext == PollPeriodic \/ PollJitter

SchedSpec == SchedInit /\ [][SchedNext]_vars

\* ------------------------------------------------- the computation graph
\* load_computation_graph and validate_components, which run before the
\* executor is built.  A descriptor entry is a bare name or a dict; the value
\* of 'inputs' / 'outputs' is absent, None, a string or a list.

GraphNames == {"A", "B"}

Absent == [kind |-> "absent", str |-> "", list |-> << >>]
RawInputs ==
    {Absent,
     [kind |-> "none", str |-> "", list |-> << >>],
     [kind |-> "str", str |-> "y", list |-> << >>],
     [kind |-> "list", str |-> "", list |-> <<"x">>],
     [kind |-> "list", str |-> "", list |-> <<"all">>]}
RawOutputs ==
    {Absent,
     [kind |-> "str", str |-> "x", list |-> << >>],
     [kind |-> "list", str |-> "", list |-> <<"all">>]}

\* "str": a bare name; "dict": {name: {...}}; "dict2": a dict with two keys
RawEntries ==
    {[kind |-> "str", name |-> n, inputs |-> Absent, outputs |-> Absent] : n \in GraphNames}
      \cup {[kind |-> "dict", name |-> n, inputs |-> i, outputs |-> o] :
               n \in GraphNames, i \in RawInputs, o \in RawOutputs}
      \cup {[kind |-> "dict2", name |-> "A", inputs |-> Absent, outputs |-> Absent]}

RawGraphs == UNION {[1..n -> RawEntries] : n \in 1..MaxGraphLen}

\* normalize_computation_graph, lines 62-73: the value of 'inputs' / 'outputs'
NormalizeIO(v) ==
    CASE v.kind = "str" -> <<v.str>>
      [] v.kind = "list" -> v.list
      [] OTHER -> << >>

\* normalize_computation_graph: the normalized list, or the failed assertion
normalize_computation_graph(components) ==
    IF \E j \in 1..Len(components) : components[j].kind = "dict2"
    THEN [ok |-> FALSE, list |-> << >>]
    ELSE [ok |-> TRUE,
          list |-> [j \in 1..Len(components) |->
                      [name |-> components[j].name,
                       inputs |-> NormalizeIO(components[j].inputs),
                       outputs |-> NormalizeIO(components[j].outputs)]]]

\* load_computation_graph, lines 82-83: COMPONENT_ORDER keeps every entry,
\* COMPONENT_SETTINGS (a dict) the last entry of each name
LoadedFrom(list) ==
    LET order == [j \in 1..Len(list) |-> list[j].name]
        lastOf(n) == CHOOSE j \in 1..Len(list) :
                        /\ list[j].name = n
                        /\ \A j2 \in 1..Len(list) : list[j2].name = n => j2 <= j
    IN  [order |-> order,
         settings |-> [n \in Range(order) |->
                          [inputs |-> list[lastOf(n)].inputs,
                           outputs |-> list[lastOf(n)].outputs]]]

NoError == NoVerdict
Err(msg, name, i) == [res |-> "error", msg |-> msg, k |-> name, i |-> i, out |-> {}]
Accepted(out) == [res |-> "accepted", msg |-> "", k |-> "", i |-> "", out |-> out]

RECURSIVE CheckInputs(_, _, _, _, _)
\* validate_components, lines 160-168: the first assertion that fails
CheckInputs(name, inputs, possible_inputs, prov, provided_all) ==
    IF inputs = << >> THEN NoError
    ELSE LET i == Head(inputs) IN
         IF i = "all"
         THEN IF possible_inputs = <<"all">>
              THEN CheckInputs(name, Tail(inputs), possible_inputs, prov, provided_all)
              ELSE Err("inputs are not provided by previous components", name, "")
         ELSE IF ~(provided_all \/ i \in prov)
              THEN Err("input is not provided by previous components", name, i)
         ELSE IF possible_inputs # <<"all">> /\ i \notin Range(possible_inputs)
              THEN Err("is not supposed to receive input", name, i)
         ELSE CheckInputs(name, Tail(inputs), possible_inputs, prov, provided_all)

\* (variant: the outputs the descriptor requires are not checked)
CheckOutputs_None(name, required_outputs, outputs) == NoError

RECURSIVE CheckOutputs(_, _, _)
\* validate_components, lines 170-174
CheckOutputs(name, required_outputs, outputs) ==
    IF required_outputs = << >> THEN NoError
    ELSE LET o == Head(required_outputs) IN
         IF o = "all"
         THEN IF outputs = <<"all">>
              THEN CheckOutputs(name, Tail(required_outputs), outputs)
              ELSE Err("outputs are not provided by previous components", name, "")
         ELSE IF o \notin Range(outputs)
              THEN Err("doesn't output required output", name, o)
              ELSE CheckOutputs(name, Tail(required_outputs), outputs)

RECURSIVE ValidateFrom(_, _, _, _, _)
\* validate_components, lines 152-185: the loop over COMPONENT_ORDER from the
\* entries in order on, then the loop over the components
ValidateFrom(order, settings, components, prov, provided_all) ==
    IF order = << >>
    THEN IF \E n \in DOMAIN components : n \notin DOMAIN settings
         THEN Err("is not known", CHOOSE n \in DOMAIN components : n \notin DOMAIN settings, "")
         ELSE Accepted(prov)
    ELSE LET name == Head(order) IN
         IF name \notin DOMAIN components
         THEN ValidateFrom(Tail(order), settings, components, prov, provided_all)
         ELSE LET e1 == CheckInputs(name, components[name].inputs, settings[name].inputs,
                                    prov, provided_all)
                  e2 == CheckOutputs(name, settings[name].outputs, components[name].outputs)
              IN  IF e1 # NoError THEN e1
                  ELSE IF e2 # NoError THEN e2
                  ELSE ValidateFrom(Tail(order), settings, components,
                                    prov \cup {o \in Range(components[name].outputs) : o # "all"},
                                    provided_all \/ "all" \in Range(components[name].outputs))

\* validate_components(components, provided) with the graph that is loaded
validate_components(components, prov) ==
    ValidateFrom(loaded.order, loaded.settings, components, prov, FALSE)

\* state_inputs() / state_outputs() of a component of the phase
CompIO ==
    [inputs : {<< >>, <<"x">>, <<"y">>, <<"all">>}, outputs : {<< >>, <<"x">>, <<"all">>}]

\* a phase: components of the graph, with or without a component "C" that the
\* graph does not name
Phases ==
    UNION {{[n \in D \cup E |-> IF n \in D THEN f[n] ELSE [inputs |-> << >>, outputs |-> << >>]] :
               f \in [D -> CompIO], E \in {{}, {"C"}}} : D \in SUBSET GraphNames}

GraphInit ==
    /\ pc = "unloaded"
    /\ kind = "Standard"
    /\ k = 1
    /\ current_pipeline = "drive"
    /\ mission = "unset"
    /\ t = 0
    /\ bb = [f \in Fields |-> "zero"]
    /\ upd = [f \in Fields |-> NoTime]
    /\ had_exception = [c \in Comps |-> FALSE]
    /\ chealthy = [c \in Comps |-> TRUE]
    /\ next_update_time = [c \in Comps |-> NoTime]
    /\ last_update_time = [c \in Comps |-> NoTime]
    /\ num_overruns = [c \in Comps |-> 0]
    /\ overrun_amount = [c \in Comps |-> 0]
    /\ started = [c \in Comps |-> 0]
    /\ stopped = [c \in Comps |-> 0]
    /\ next = None
    /\ exit_reasons = << >>
    /\ events = {}
    /\ ran = << >>
    /\ raised = {}
    /\ wrote = {}
    /\ begun = 0 /\ ended = 0 /\ closed = 0
    /\ ninterrupts = 0
    /\ numsteps = NoSteps
    /\ num_attempts = 0
    /\ sensors_working = FALSE
    /\ ndeviations = 0
    /\ nrequests = 0
    /\ last = "init"
    /\ Unused

\* everything but the graph
GraphIdle ==
    UNCHANGED <<kind, k, current_pipeline, mission, t, bb, upd, had_exception, chealthy,
                next_update_time, last_update_time, num_overruns, overrun_amount,
                started, stopped, next, exit_reasons, events, ran, raised, wrote,
                begun, ended, closed, ninterrupts, numsteps, num_attempts,
                sensors_working, ndeviations, nrequests, period, polls, calls, xvars>>

\* load_computation_graph, lines 80-83
LoadGraph ==
    /\ pc = "unloaded"
    /\ \E components \in RawGraphs :
         LET n == normalize_computation_graph(components) IN
         IF n.ok
         THEN pc' = "loaded" /\ loaded' = LoadedFrom(n.list)
         ELSE pc' = "load_failed" /\ loaded' = loaded
    /\ last' = "load"
    /\ UNCHANGED <<phase, provided, verdict>>
    /\ GraphIdle

\* one call validate_components(components, provided), as add_pipeline makes
\* it for each phase (lines 420-422)
ValidateComponents ==
    /\ pc = "loaded"
    /\ \E components \in Phases, prov \in {{}, {"y"}} :
         /\ phase' = components
         /\ provided' = prov
         /\ verdict' = validate_components(components, prov)
    /\ pc' = "validated"
    /\ last' = "validate"
    /\ UNCHANGED loaded
    /\ GraphIdle

GraphNext == LoadGraph \/ ValidateComponents

GraphSpec == GraphInit /\ [][GraphNext]_vars

\* ---------------------------------------------------------- make_component
\* ExecutorBase.make_component called on one executor.  config_info is a class
\* name (a string) or a dict, whose items are kept in insertion order; no
\* component is replayed and no descriptor asks for a multiprocess executor.

MakeNames == {"A", "B"}

ConfigInfos ==
    {[kind |-> "str", str |-> "X", items |-> << >>],
     [kind |-> "dict", str |-> "", items |-> << <<"type", "X">> >>],
     [kind |-> "dict", str |-> "", items |-> << <<"type", "X">>, <<"rate", 2>> >>],
     [kind |-> "dict", str |-> "", items |-> << <<"rate", 2>>, <<"type", "X">> >>],
     [kind |-> "dict", str |-> "", items |-> << <<"type", "Plain">> >>],
     [kind |-> "dict", str |-> "", items |-> << <<"type", "Missing">> >>]}

\* config_info == other, as Python compares strings and dicts: the order of
\* a dict's items does not count
ConfigEq(a, b) == a.kind = b.kind /\ a.str = b.str /\ Range(a.items) = Range(b.items)

\* line 381, str((component_name, config_info)): the text of a dict lists its
\* items in insertion order
Identifier(component_name, config_info) ==
    <<component_name, config_info.kind, config_info.str, config_info.items>>

\* config_info.get(key, default)
ConfigGet(config_info, key, default) ==
    IF \E i \in 1..Len(config_info.items) : config_info.items[i][1] = key
    THEN (config_info.items[CHOOSE i \in 1..Len(config_info.items) :
                               config_info.items[i][1] = key])[2]
    ELSE default

\* make_class: "Missing" names no class (an exception), "Plain" a class that
\* is not a Component, anything else a Component
make_class(config_info) ==
    LET type == IF config_info.kind = "str" THEN config_info.str
                ELSE ConfigGet(config_info, "type", "Missing") IN
    CASE type = "Missing" -> "raise"
      [] type = "Plain" -> "object"
      [] OTHER -> "component"

\* what a call that raised returned
Raised == [id |-> 0, dt |-> 0]

\* lines 401-407: the executor of the n-th component constructed
NewExecutor(n, config_info) == [id |-> n, dt |-> ConfigGet(config_info, "rate", 0)]

\* an executor as constructed, before run is called
Constructed ==
    /\ last = "init"
    /\ kind = "Standard"
    /\ k = 1
    /\ current_pipeline = "drive"
    /\ mission = "unset"
    /\ t = 0
    /\ bb = [f \in Fields |-> "zero"]
    /\ upd = [f \in Fields |-> NoTime]
    /\ had_exception = [c \in Comps |-> FALSE]
    /\ chealthy = [c \in Comps |-> TRUE]
    /\ next_update_time = [c \in Comps |-> NoTime]
    /\ last_update_time = [c \in Comps |-> NoTime]
    /\ num_overruns = [c \in Comps |-> 0]
    /\ overrun_amount = [c \in Comps |-> 0]
    /\ started = [c \in Comps |-> 0]
    /\ stopped = [c \in Comps |-> 0]
    /\ next = None
    /\ exit_reasons = << >>
    /\ events = {}
    /\ ran = << >>
    /\ raised = {}
    /\ wrote = {}
    /\ begun = 0 /\ ended = 0 /\ closed = 0
    /\ ninterrupts = 0
    /\ numsteps = NoSteps
    /\ num_attempts = 0
    /\ sensors_working = FALSE
    /\ ndeviations = 0
    /\ nrequests = 0

MakeInit == pc = "making" /\ Constructed /\ Unused

\* make_component, lines 381-410
MakeComponent ==
    /\ pc = "making"
    /\ Len(made) < MaxMakeCalls
    /\ \E component_name \in MakeNames, config_info \in ConfigInfos :
         LET identifier == Identifier(component_name, config_info)
             call == [name |-> component_name, config |-> config_info] IN
         IF identifier \in DOMAIN component_cache
         THEN /\ made' = Append(made, [call |-> call, ex |-> component_cache[identifier]])
              /\ UNCHANGED <<component_cache, nconstructed>>
         ELSE IF make_class(config_info) # "component"
         THEN /\ made' = Append(made, [call |-> call, ex |-> Raised])
              /\ UNCHANGED <<component_cache, nconstructed>>
         ELSE LET executor == NewExecutor(nconstructed + 1, config_info) IN
              /\ nconstructed' = nconstructed + 1
              /\ component_cache' =
                    [i \in DOMAIN component_cache \cup {identifier} |->
                       IF i = identifier THEN executor ELSE component_cache[i]]
              /\ made' = Append(made, [call |-> call, ex |-> executor])
    /\ last' = "make"
    /\ UNCHANGED <<pc, rvars, gvars, svars, fvars, at_rest, pvars>>

MakeNext == MakeComponent

MakeSpec == MakeInit /\ [][MakeNext]_vars

\* ------------------------------------------------ check_for_hardware_faults
\* check_for_hardware_faults called tick after tick with the faults that the
\* vehicle interface reports

Faults == {"disengaged", "estop"}

\* (variant: every reported fault is new)
NewFaults_All(faults, lastf, req) == faults

\* lines 579-591: the faults for which an event is recorded
NewFaults(faults, lastf, req) ==
    {f \in faults : IF f = "disengaged" THEN req /\ f \notin lastf ELSE f \notin lastf}

FaultInit ==
    /\ pc = "faults"
    /\ Constructed
    /\ loaded = NotLoaded /\ phase = << >> /\ provided = {}
    /\ verdict = NoVerdict /\ period = 0 /\ polls = {} /\ calls = << >>
    /\ NoneMade /\ at_rest = FALSE /\ NoPeriod
    /\ require_engaged \in BOOLEAN
    /\ last_hardware_faults = {}
    /\ fault_hist = << >>
    /\ fault_events = << >>

\* check_for_hardware_faults, lines 576-599
check_for_hardware_faults ==
    /\ pc = "faults"
    /\ Len(fault_hist) < MaxFaultTicks
    /\ \E faults \in SUBSET Faults :
         /\ fault_hist' = Append(fault_hist, faults)
         /\ fault_events' =
               Append(fault_events, NewFaults(faults, last_hardware_faults, require_engaged))
         /\ events' = NewFaults(faults, last_hardware_faults, require_engaged)
         /\ last_hardware_faults' = faults
    /\ last' = "faults"
    /\ UNCHANGED <<pc, kind, k, current_pipeline, mission, t, bb, upd, had_exception,
                   chealthy, next_update_time, last_update_time, num_overruns,
                   overrun_amount, started, stopped, next, exit_reasons, ran, raised,
                   wrote, begun, ended, closed, ninterrupts, numsteps, num_attempts,
                   sensors_working, ndeviations, nrequests,
                   gvars, svars, mvars, require_engaged, at_rest, pvars>>

FaultNext == check_for_hardware_faults

FaultSpec == FaultInit /\ [][FaultNext]_vars

\* ------------------------------------------------- the period of the looper
\* The heads of validate_sensors and run_until_switch in a run whose executors
\* have any dt from 0 to MaxDt: the ticks themselves are left out, a call of
\* run_until_switch ends when it returns the name of another pipeline.

\* the executors that run_until_switch lists for pipeline p (line 643)
Participants(p) ==
    Range(pipelines(p).perception) \cup Range(pipelines(p).planning)
      \cup Range(pipelines(p).other) \cup Range(always_run_components)

\* the executors that validate_sensors lists for pipeline p (line 606)
Probed(p) == Range(pipelines(p).perception) \cup Range(always_run_components)

\* (variant: the executors with dt = 0 are not left out)
LoopPeriod_WithZero(components, d) ==
    LET ds == {d[c] : c \in components} IN
    IF ds = {} THEN NoTime ELSE CHOOSE m \in ds : \A x \in ds : m <= x

\* min([c.dt for c in components if c.dt != 0.0]), NoTime when min() is
\* given an empty list and raises ValueError
LoopPeriod(components, d) ==
    LET ds == {d[c] : c \in components} \ {0} IN
    IF ds = {} THEN NoTime ELSE CHOOSE m \in ds : \A x \in ds : m <= x

\* run up to its first call of validate_sensors: lines 503-512
PeriodInit ==
    /\ pc = "vs_head"
    /\ last = "init"
    /\ kind = "Custom"
    /\ k = 1
    /\ current_pipeline = "drive"
    /\ mission = "IDLE"
    /\ t = 0
    /\ bb = [f \in Fields |-> "zero"]
    /\ upd = [f \in Fields |-> NoTime]
    /\ had_exception = [c \in Comps |-> FALSE]
    /\ chealthy = [c \in Comps |-> TRUE]
    /\ next_update_time = [c \in Comps |-> NoTime]
    /\ last_update_time = [c \in Comps |-> NoTime]
    /\ num_overruns = [c \in Comps |-> 0]
    /\ overrun_amount = [c \in Comps |-> 0]
    /\ started = Counted([c \in Comps |-> 0], Len(all_components))
    /\ stopped = [c \in Comps |-> 0]
    /\ next = None
    /\ exit_reasons = << >>
    /\ events = {}
    /\ ran = << >>
    /\ raised = {}
    /\ wrote = {}
    /\ begun = 0 /\ ended = 0 /\ closed = 0
    /\ ninterrupts = 0
    /\ numsteps = NoSteps
    /\ num_attempts = 0
    /\ sensors_working = FALSE
    /\ ndeviations = 0
    /\ nrequests = 0
    /\ loaded = NotLoaded /\ phase = << >> /\ provided = {}
    /\ verdict = NoVerdict /\ period = 0 /\ polls = {} /\ calls = << >>
    /\ NoneMade /\ NoFaultsSeen /\ at_rest = FALSE
    /\ dtcfg \in [Comps -> 0..MaxDt]
    /\ dt_min = NoTime

PeriodIdle ==
    UNCHANGED <<kind, k, mission, t, bb, upd, had_exception, chealthy, next_update_time,
                last_update_time, num_overruns, overrun_amount, started, stopped,
                exit_reasons, events, ran, raised, wrote, ended, closed,
                ninterrupts, num_attempts, sensors_working, ndeviations, nrequests,
                gvars, svars, mvars, fvars, at_rest, dtcfg>>

\* validate_sensors, lines 603-608, and what run does with its value: the
\* call validate_sensors() returns True once the sensors work (lines 523-524),
\* the call validate_sensors(1) returns True for an empty perception phase and
\* False after its one step otherwise (lines 546-548)
PeriodValidate ==
    /\ pc = "vs_head"
    /\ last' = "validate"
    /\ IF pipelines(current_pipeline).perception = << >>
       THEN /\ pc' = "enter"
            /\ UNCHANGED <<current_pipeline, dt_min>>
       ELSE IF LoopPeriod(Probed(current_pipeline), dtcfg) = NoTime
       THEN /\ pc' = "crashed"
            /\ UNCHANGED <<current_pipeline, dt_min>>
       ELSE /\ pc' = "enter"
            /\ current_pipeline' = IF numsteps = NoSteps THEN current_pipeline ELSE "recovery"
            /\ dt_min' = NoTime
    /\ begun' = IF numsteps = NoSteps /\ pc' = "enter" THEN begun + 1 ELSE begun
    /\ numsteps' = NoSteps
    /\ next' = None
    /\ PeriodIdle

\* run_until_switch, lines 642-645
PeriodEnter ==
    /\ pc = "enter"
    /\ last' = "enter"
    /\ dt_min' = LoopPeriod(Participants(current_pipeline), dtcfg)
    /\ pc' = IF LoopPeriod(Participants(current_pipeline), dtcfg) = NoTime
             THEN "crashed" ELSE "ticking"
    /\ UNCHANGED <<current_pipeline, numsteps, next, begun>>
    /\ PeriodIdle

\* run_until_switch returns the name of another pipeline, after a fault or
\* on the request of the subclass update() (lines 663, 670), and run makes it
\* the current one and probes its sensors (lines 545-546)
PeriodSwitch ==
    /\ pc = "ticking"
    /\ last' = "switch"
    /\ \E name \in PipelineNames \ {current_pipeline} :
         current_pipeline' = name
    /\ dt_min' = NoTime
    /\ numsteps' = 1
    /\ pc' = "vs_head"
    /\ UNCHANGED <<next, begun>>
    /\ PeriodIdle

PeriodNext == PeriodValidate \/ PeriodEnter \/ PeriodSwitch

PeriodSpec == PeriodInit /\ [][PeriodNext]_vars

TypeOK ==
    /\ pc \in {"making", "faults", "vs_head", "ticking", "start", "vs_loop", "vs_perception", "vs_always", "begin", "enter", "tick",
               "perception", "update", "planning", "other", "always", "resolve", "end",
               "stopping", "done", "crashed", "poll", "unloaded", "loaded",
               "load_failed", "validated"}
    /\ t \in 0..MaxT

\* ------------------------------------------------------------------ claims

TickPcs == {"perception", "update", "planning", "other", "always"}
CheckNames == {"perception_check", "planning_check", "other_check", "always_check"}
LastOf(s) == s[Len(s)]

\* the components a fault check looked at, and where the tick goes on after it
CheckedComps(l) ==
    CASE l = "perception_check" -> pipelines(current_pipeline).perception
      [] l = "planning_check" -> pipelines(current_pipeline).planning
      [] l = "other_check" -> pipelines(current_pipeline).other
      [] OTHER -> always_run_components
AfterCheck(l) ==
    CASE l = "perception_check" -> "update"
      [] l = "planning_check" -> "other"
      [] l = "other_check" -> "always"
      [] OTHER -> "tick"
\* what runs in the phases that follow the checked one
LaterComps(l) ==
    CASE l = "perception_check" ->
            {"update()"} \cup Range(pipelines(current_pipeline).planning)
              \cup Range(pipelines(current_pipeline).other) \cup Range(always_run_components)
      [] l = "planning_check" ->
            Range(pipelines(current_pipeline).other) \cup Range(always_run_components)
      [] l = "other_check" -> Range(always_run_components)
      [] OTHER -> {}
\* some executor the check looked at is unhealthy and essential
EssentialFault(l) ==
    \E c \in Range(CheckedComps(l)) :
        (~chealthy[c] \/ had_exception[c]) /\ essential(c)

\* C1: when run has ended, whether it returned or an error left it, every
\* executor whose start() was called has had stop() called exactly once.
C1_CleanupExactlyOnce ==
    pc \in {"done", "crashed"} =>
        \A c \in Comps : started[c] >= 1 => stopped[c] = 1

\* C2: whenever a component is updated while the current pipeline is
\* 'recovery', the one-step sensor probe after a switch included, the mission
\* type is RECOVERY_STOP.
C2_RecoveryStopBeforeUpdate ==
    (current_pipeline = "recovery" /\ pc \in TickPcs \cup {"vs_perception", "vs_always"}
       /\ ran # << >>)
        => mission = "RECOVERY_STOP"

\* C3: an exception raised by a component's update stays inside
\* ComponentExecutor.update: it does not leave run, had_exception is set and
\* the call writes no blackboard field.
C3_ExceptionContained ==
    raised # {} =>
        /\ pc # "crashed"
        /\ wrote = {}
        /\ \A c \in raised : had_exception[c]

\* C4: after a phase of run_until_switch, an unhealthy essential executor of
\* the phase makes run_until_switch return 'recovery' in the same tick, before
\* any later phase, when the current pipeline is not 'recovery'; otherwise
\* (the unhealthy executors are not essential, or the pipeline is 'recovery')
\* the tick goes on with the next phase.
C4_FaultPolicy ==
    \A l \in CheckNames :
        last = l =>
            IF EssentialFault(l) /\ current_pipeline # "recovery"
            THEN /\ pc = "resolve"
                 /\ next = "recovery"
                 /\ Range(ran) \cap LaterComps(l) = {}
            ELSE pc = AfterCheck(l)

C4_Witness ==
    /\ last = "planning_check"
    /\ pc = "resolve"
    /\ next = "recovery"
    /\ had_exception["planner"]

\* C5 as stated: while the current pipeline is 'recovery', an unhealthy
\* essential component makes the fault check hand 'recovery' to the loop of
\* run, which then records 'recovery pipeline not working' and leaves.
C5_RecoveryFaultLeavesLoop ==
    \A l \in CheckNames :
        (last = l /\ current_pipeline = "recovery" /\ EssentialFault(l))
            => (pc = "resolve" /\ next = "recovery")

\* C5 amended: while the current pipeline is 'recovery', an unhealthy
\* essential component is ignored by every fault check, and the exit reason
\* 'recovery pipeline not working' is recorded only after the subclass update()
\* has requested a switch.
C5_RecoveryFaultIgnored ==
    /\ \A l \in CheckNames :
          (last = l /\ current_pipeline = "recovery") => pc = AfterCheck(l)
    /\ (exit_reasons # << >> /\ LastOf(exit_reasons) = "recovery pipeline not working")
          => (nrequests > 0 /\ current_pipeline = "recovery")

C5_Witness ==
    /\ last = "perception_check"
    /\ current_pipeline = "recovery"
    /\ EssentialFault("perception_check")
    /\ pc = "update"

\* C6: run resolves the name returned by run_until_switch: a name that is not
\* registered stands for 'recovery'; 'recovery' from 'recovery' records
\* 'recovery pipeline not working' and leaves the loop; any other target
\* becomes the current pipeline and the loop goes on with the sensor probe.
C6_SwitchResolution ==
    [][(pc = "resolve" /\ last' = "resolve" /\ next # None) =>
         LET target == IF next \in PipelineNames THEN next ELSE "recovery" IN
         IF current_pipeline = "recovery" /\ target = "recovery"
         THEN /\ exit_reasons' = Append(exit_reasons, "recovery pipeline not working")
              /\ pc' = "end"
              /\ current_pipeline' = current_pipeline
         ELSE /\ current_pipeline' = target
              /\ pc' = "vs_loop"
              /\ exit_reasons' = exit_reasons]_vars

C6_Witness ==
    /\ last = "resolve"
    /\ pc = "end"
    /\ current_pipeline = "recovery"
    /\ LastOf(exit_reasons) = "recovery pipeline not working"

\* C7 as stated: an interrupt in a non-recovery pipeline switches to
\* 'recovery' and the loop goes on, an interrupt in 'recovery' ends the loop,
\* and the run ends at the latest on the second interrupt.
C7_EndsOnSecondInterrupt ==
    last = "interrupt" =>
        /\ current_pipeline = "recovery"
        /\ pc \in {"enter", "end"}
        /\ (ninterrupts >= 2 => pc = "end")

\* C7 amended: an interrupt in a non-recovery pipeline makes 'recovery' the
\* current pipeline, records an event and the loop goes on; an interrupt while
\* the current pipeline is 'recovery' ends the loop with 'Ctrl+C interrupt
\* during recovery'; with StandardExecutor the run ends at the latest on the
\* second interrupt.
C7_InterruptHandling ==
    /\ [][(last' = "interrupt" /\ ninterrupts' = ninterrupts + 1) =>
            IF current_pipeline = "recovery"
            THEN /\ pc' = "end"
                 /\ exit_reasons' = Append(exit_reasons, "Ctrl+C interrupt during recovery")
                 /\ current_pipeline' = "recovery"
            ELSE /\ pc' = "enter"
                 /\ current_pipeline' = "recovery"
                 /\ events' = {"Ctrl+C pressed, switching to recovery mode"}
                 /\ exit_reasons' = exit_reasons]_vars
    /\ []((kind = "Standard" /\ last = "interrupt" /\ ninterrupts >= 2) => pc = "end")

C7_Witness ==
    /\ last = "interrupt"
    /\ ninterrupts = 2
    /\ pc = "end"
    /\ LastOf(exit_reasons) = "Ctrl+C interrupt during recovery"

\* C8: when the one-step probe after a switch has run its step, the pipeline
\* switched to stays current and no event is recorded if every perception
\* executor was healthy; otherwise 'recovery' becomes current and an event is
\* recorded.
C8_ProbeKeepsHealthyPipeline ==
    (last = "vs_attempt" /\ pc = "enter") =>
        IF sensors_working
        THEN events = {}
        ELSE current_pipeline = "recovery" /\ events # {}

\* C9: run reaches begin() only when the initial sensor validation ended with
\* every perception executor of the initial pipeline healthy; a validation
\* that ended otherwise records 'Sensor validation failed' and neither begin()
\* nor end() is called.
C9_BeginOnlyIfSensorsHealthy ==
    /\ pc = "begin" => sensors_working
    /\ (exit_reasons # << >> /\ exit_reasons[1] = "Sensor validation failed")
          => (begun = 0 /\ ended = 0)

\* position of x in the sequence s
IndexIn(s, x) == CHOOSE i \in 1..Len(s) : s[i] = x

\* rank of an entry of ran by phase, then by position in order
RankBy(x, always_order) ==
    IF x = "update()" THEN 200
    ELSE IF x \in Range(pipelines(current_pipeline).perception)
         THEN 100 + IndexIn(COMPONENT_ORDER, x)
    ELSE IF x \in Range(pipelines(current_pipeline).planning)
         THEN 300 + IndexIn(COMPONENT_ORDER, x)
    ELSE IF x \in Range(pipelines(current_pipeline).other)
         THEN 400 + IndexIn(COMPONENT_ORDER, x)
    ELSE 500 + IndexIn(always_order, x)

InTick == pc \in TickPcs \cup {"tick", "resolve"}

\* C10 as stated: within a tick the updates happen in the order perception,
\* subclass update, planning, other, always-run, and within each of these phases
\* in the order of the names in the computation-graph descriptor.
C10_TickOrder ==
    InTick =>
        \A i, j \in 1..Len(ran) :
            i < j => RankBy(ran[i], COMPONENT_ORDER) < RankBy(ran[j], COMPONENT_ORDER)

\* C10 amended: within a tick the updates happen in the order perception,
\* subclass update, planning, other, always-run; within perception, planning
\* and other in the order of the names in the computation-graph descriptor,
\* and within always-run in the order in which the components were added to
\* the always-run set.
C10_TickOrderAmended ==
    InTick =>
        \A i, j \in 1..Len(ran) :
            i < j => RankBy(ran[i], always_run_components) < RankBy(ran[j], always_run_components)

C10_Witness ==
    /\ pc = "tick"
    /\ ran = <<"gnss", "lidar", "update()", "planner", "ctrl", "slog", "vlog">>

\* the steps in which update_components updates a component
UpdatePcs == TickPcs \cup {"vs_perception", "vs_always"}

\* C11: when the update of a component with more than one declared output
\* has run without raising and without writing a field (its result was None
\* or did not have the declared length), run has not been left: the tick goes
\* on with the next component.
C11_ArityErrorLogged ==
    (last \in UpdatePcs /\ ran # << >> /\ Len(output(LastOf(ran))) > 1
       /\ raised = {} /\ wrote = {})
        => pc # "crashed"

\* C14: every executor whose update was invoked has had start() called
\* exactly once.
C14_StartedBeforeUpdate ==
    \A i \in 1..Len(ran) : ran[i] # "update()" => started[ran[i]] = 1

\* C15: had_exception never goes back to false, and the health that
\* validate_sensors reads from the perception executors is component.healthy()
\* and not had_exception, so an executor with had_exception set is unhealthy
\* whatever its component reports.
C15_ExceptionLatch ==
    /\ [][\A c \in Comps : had_exception[c] => had_exception'[c]]_vars
    /\ [](last = "vs_working" =>
            (sensors_working <=>
               \A c \in Range(pipelines(current_pipeline).perception) :
                   chealthy[c] /\ ~had_exception[c]))

C15_Witness ==
    /\ last = "vs_working"
    /\ had_exception["gnss"] /\ chealthy["gnss"] /\ chealthy["lidar"]
    /\ ~sensors_working

\* C16: a field written in a step carries the time of the tick as its
\* update-time, keeps it until the time of the tick changes, and an update-time
\* changes only in a step that writes its field.
C16_UpdateTimeStamps ==
    /\ [](\A w \in wrote : upd[w[2]] = t)
    /\ [][\A f \in Fields : upd'[f] # upd[f] => \E c \in Comps : <<c, f>> \in wrote']_vars
    /\ [][\A f \in Fields : (t' = t /\ upd[f] = t) => upd'[f] = t]_vars

C16_Witness ==
    /\ pc = "tick" /\ last = "always_check"
    /\ "planner" \in Range(ran)
    /\ upd["route"] = t /\ upd["trajectory"] = t /\ upd["vehicle"] = t

\* C17: a tick that got through its always-run phase has invoked the update of
\* every always-run component.
C17_AlwaysRunEveryTick ==
    last = "always_check" =>
        \A c \in Range(always_run_components) : c \in Range(ran)

\* update_now invocations of executor c at the times a <= x < a + T
CallsIn(c, a, T) == Cardinality({x \in calls[c] : a <= x /\ x < a + T})

\* C12: an executor with dt > 0 polled at a fixed period of at most dt has,
\* in every window of length T of the time polled so far, between
\* floor(T/dt) - 1 and ceil(T/dt) + 1 invocations of update_now; with dt = 2
\* quanta polled every quantum for 20 quanta (10 Hz, ticks of 0.05 s, 1.0 s)
\* there are exactly 10.
C12_InvocationsPerWindow ==
    /\ \A c \in Range(SchedComps) :
          (polls # {} /\ period >= 1 /\ dt(c) >= period) =>
              \A a \in 0..t : \A T \in 1..(t + 1 - a) :
                  /\ CallsIn(c, a, T) >= (T \div dt(c)) - 1
                  /\ CallsIn(c, a, T) <= ((T + dt(c) - 1) \div dt(c)) + 1
    /\ (period = 1 /\ t >= 19) => CallsIn("imu", 0, 20) = 10

C12_Witness ==
    /\ period = 1 /\ t = 19
    /\ CallsIn("imu", 0, 20) = 10
    /\ CallsIn("radar", 0, 20) = 7

\* C18: when an executor with dt > 0 whose update_now ran at the previous
\* poll is polled again 2*dt later, that poll counts exactly one overrun and
\* leaves next_update_time at t + dt.
C18_OverrunCountedOnce ==
    [][\A c \in Range(SchedComps) :
         (last' = "poll" /\ dt(c) > 0 /\ polls # {} /\ last_update_time[c] = t
            /\ t' = t + 2 * dt(c))
           => /\ num_overruns'[c] = num_overruns[c] + 1
              /\ next_update_time'[c] = t' + dt(c)]_vars

\* C19: an executor with dt = 0 runs update_now at every poll of a clock that
\* does not go back, and never counts an overrun.
C19_EventDrivenRunsEveryTick ==
    /\ dt("gnss") = 0
    /\ [][last' = "poll" =>
            /\ "gnss" \in Range(ran')
            /\ last_update_time'["gnss"] = t']_vars
    /\ [](num_overruns["gnss"] = 0 /\ overrun_amount["gnss"] = 0)
    /\ [](pc = "poll" => calls["gnss"] = polls)

C19_Witness ==
    /\ period = 0
    /\ polls = {0, 2, 3}
    /\ calls["gnss"] = {0, 2, 3}
    /\ calls["radar"] = {0, 3}

\* the fields provided to the component at position p of COMPONENT_ORDER:
\* those of earlier phases and the outputs of the components visited before it
Upstream(p) ==
    provided \cup UNION {Range(phase[loaded.order[q]].outputs) :
                           q \in {q2 \in 1..(p - 1) : loaded.order[q2] \in DOMAIN phase}}

\* every declared input is provided ('all' is allowed by the descriptor)
InputsProvided ==
    \A p \in 1..Len(loaded.order) :
        LET k0 == loaded.order[p] IN
        k0 \in DOMAIN phase =>
            \A i \in Range(phase[k0].inputs) :
                IF i = "all" THEN loaded.settings[k0].inputs = <<"all">>
                ELSE i \in Upstream(p) \/ "all" \in Upstream(p)

\* every declared input is one the descriptor lets the component receive
InputsAllowed ==
    \A k0 \in DOMAIN phase \cap Range(loaded.order) :
        \A i \in Range(phase[k0].inputs) :
            i = "all" \/ loaded.settings[k0].inputs = <<"all">>
              \/ i \in Range(loaded.settings[k0].inputs)

\* every output the descriptor requires is declared by the component
OutputsDeclared ==
    \A k0 \in DOMAIN phase \cap Range(loaded.order) :
        \A o \in Range(loaded.settings[k0].outputs) :
            IF o = "all" THEN phase[k0].outputs = <<"all">>
            ELSE o \in Range(phase[k0].outputs)

\* C13 as stated: validate_components accepts exactly when every declared
\* input of every component is 'all' or provided by an earlier component or
\* an earlier phase.
C13_AcceptsIffInputsProvided ==
    pc = "validated" => (verdict.res = "accepted" <=> InputsProvided)

\* C13 amended: validate_components accepts exactly when every declared input
\* is provided, every declared input is one the descriptor lets the component
\* receive, every output the descriptor requires is declared, and every
\* component is named by the descriptor; for [A{out:[x]}, B{in:[y]}] it fails
\* with an error that names B and y.
C13_AcceptsIffMatchesGraph ==
    pc = "validated" =>
        /\ verdict.res = "accepted" <=>
              /\ InputsProvided /\ InputsAllowed /\ OutputsDeclared
              /\ DOMAIN phase \subseteq Range(loaded.order)
        /\ verdict.res \in {"accepted", "error"}
        /\ (/\ loaded.order = <<"A", "B">>
            /\ loaded.settings["A"] = [inputs |-> << >>, outputs |-> <<"x">>]
            /\ loaded.settings["B"] = [inputs |-> <<"y">>, outputs |-> << >>]
            /\ DOMAIN phase = {"A", "B"}
            /\ phase["A"] = [inputs |-> << >>, outputs |-> <<"x">>]
            /\ phase["B"] = [inputs |-> <<"y">>, outputs |-> << >>]
            /\ provided = {})
             => (verdict.res = "error" /\ verdict.k = "B" /\ verdict.i = "y")

C13_Witness ==
    /\ pc = "validated"
    /\ loaded.order = <<"A", "B">>
    /\ loaded.settings["A"] = [inputs |-> << >>, outputs |-> <<"x">>]
    /\ loaded.settings["B"] = [inputs |-> <<"y">>, outputs |-> << >>]
    /\ DOMAIN phase = {"A", "B"}
    /\ phase["A"] = [inputs |-> << >>, outputs |-> <<"x">>]
    /\ phase["B"] = [inputs |-> <<"y">>, outputs |-> << >>]
    /\ provided = {}
    /\ verdict.res = "error" /\ verdict.k = "B" /\ verdict.i = "y"

\* C20: a graph is loaded only from a descriptor in which no two entries have
\* the same name.
C20_DuplicateNamesRejected ==
    \A p, q \in 1..Len(loaded.order) : p # q => loaded.order[p] # loaded.order[q]

\* the calls of make_component that returned an executor
Returned == {i \in 1..Len(made) : made[i].ex # Raised}

\* a (component name, descriptor) pair, as Python compares pairs
PairOf(call) == <<call.name, call.config.kind, call.config.str, Range(call.config.items)>>

\* C21: calls of make_component with the same (component name, descriptor)
\* pair return the same executor, and the components constructed and the
\* executors held by all_components are one per distinct pair.
C21_OneExecutorPerPair ==
    /\ \A i, j \in Returned :
          (made[i].call.name = made[j].call.name
             /\ ConfigEq(made[i].call.config, made[j].call.config))
            => made[i].ex = made[j].ex
    /\ nconstructed = Cardinality({PairOf(made[i].call) : i \in Returned})
    /\ Cardinality(DOMAIN component_cache) = nconstructed

\* the exit reasons of run
ExitReasons == {"normal exit", "Sensor validation failed",
                "recovery pipeline not working", "Ctrl+C interrupt during recovery"}

\* C22: a run that returned has recorded exactly one exit reason, one of the
\* four of ExitReasons, no run records more than one, and no stop() is called
\* before the exit reason is recorded.
C22_OneExitReason ==
    /\ Len(exit_reasons) <= 1
    /\ pc = "done" => (Len(exit_reasons) = 1 /\ exit_reasons[1] \in ExitReasons)
    /\ (pc = "stopping" \/ \E c \in Comps : stopped[c] > 0) => Len(exit_reasons) = 1

C22_Witness ==
    /\ pc = "done"
    /\ exit_reasons = <<"recovery pipeline not working">>
    /\ \A c \in Range(all_components) : stopped[c] = 1

\* run_until_switch has returned None
ReturnedNone == pc = "resolve" /\ last \in {"tick", "looper_stopped"}

\* C23 as stated: run_until_switch returns None because done() was true only
\* after a tick that got through its always-run phase, so at least one full tick of the pipeline
\* entered was executed before it.
C23_DoneAfterFullTick ==
    (ReturnedNone /\ last = "tick") => "update()" \in Range(ran)

\* C23 amended: done() is evaluated at the head of every iteration, the first
\* one after the entry included: run_until_switch returns None either before
\* any tick of the pipeline entered or after a tick that got through its
\* always-run phase, never inside a tick, and on the entry of 'recovery' the
\* mission type is RECOVERY_STOP before done() is evaluated.
C23_DoneBeforeEachTick ==
    ReturnedNone =>
        /\ next = None
        /\ ran = << >> \/ "update()" \in Range(ran)
        /\ current_pipeline = "recovery" => mission = "RECOVERY_STOP"

C23_Witness ==
    /\ ReturnedNone /\ last = "tick"
    /\ kind = "Standard"
    /\ current_pipeline = "recovery"
    /\ mission = "RECOVERY_STOP"
    /\ ran = << >>

\* the faults reported at the tick before tick i
FaultsBefore(i) == IF i = 1 THEN {} ELSE fault_hist[i - 1]

\* C24: at every tick an event is recorded for fault f exactly when f is
\* reported, was not reported at the tick before, and is not 'disengaged'
\* unless run.require_engaged is true; the set remembered is the one reported
\* last, and the check leaves the current pipeline and the value that
\* run_until_switch returns alone.
C24_FaultEvents ==
    /\ [](\A i \in 1..Len(fault_hist) :
            fault_events[i] =
               {f \in fault_hist[i] :
                   /\ f \notin FaultsBefore(i)
                   /\ f # "disengaged" \/ require_engaged})
    /\ [](fault_hist # << >> => last_hardware_faults = LastOf(fault_hist))
    /\ [][last' = "faults" =>
            (current_pipeline' = current_pipeline /\ next' = next /\ pc' = pc)]_vars

C24_Witness ==
    /\ ~require_engaged
    /\ fault_hist = <<{"estop", "disengaged"}, {"estop"}, {}, {"estop"}>>
    /\ fault_events = <<{"estop"}, {}, {}, {"estop"}>>

\* C25: with StandardExecutor, once the current pipeline is 'recovery' it
\* stays 'recovery'; done() is false whatever the vehicle reports while the
\* current pipeline is not 'recovery'; and 'normal exit' is recorded in a
\* pipeline other than 'recovery' only after the looper was found stopped.
C25_RecoveryAbsorbing ==
    /\ [][current_pipeline = "recovery" => current_pipeline' = "recovery"]_vars
    /\ [](current_pipeline # "recovery" =>
            \A halted, custom \in BOOLEAN : ~done(halted, custom))
    /\ []((ReturnedNone /\ last = "tick") => current_pipeline = "recovery")
    /\ [][(exit_reasons' = Append(exit_reasons, "normal exit")
             /\ current_pipeline # "recovery") => last = "looper_stopped"]_vars

C25_Witness ==
    /\ pc = "done"
    /\ exit_reasons = <<"normal exit">>
    /\ current_pipeline = "recovery"
    /\ ninterrupts = 1

\* the run has returned with every started component stopped once and the
\* logging manager closed, after end() and the exit reason r
EndedWith(r) ==
    /\ pc = "done"
    /\ exit_reasons = <<r>>
    /\ ended = 1
    /\ \A c \in Comps : started[c] >= 1 => stopped[c] = 1
    /\ closed = 1

\* the current pipeline is 'recovery' and the vehicle is at rest for good
RecoveryAtRest == current_pipeline = "recovery" /\ at_rest

C27_UpdatePostconditions ==
    /\ [](last = "poll" =>
            \A c \in Range(ran) :
                dt(c) > 0 =>
                    /\ t <= next_update_time[c]
                    /\ next_update_time[c] <= t + dt(c)
                    /\ last_update_time[c] = t)
    /\ [][\A c \in Range(SchedComps) :
            (last' = "poll" /\ c \notin Range(ran')) =>
                /\ last_update_time'[c] = last_update_time[c]
                /\ next_update_time'[c] = next_update_time[c]
                /\ num_overruns'[c] = num_overruns[c]
                /\ overrun_amount'[c] = overrun_amount[c]
                /\ \A f \in Range(output(c)) : bb'[f] = bb[f] /\ upd'[f] = upd[f]]_vars
    /\ [][\A c \in Range(SchedComps) :
            /\ num_overruns'[c] >= num_overruns[c]
            /\ overrun_amount'[c] >= overrun_amount[c]]_vars

C27_Witness ==
    /\ last = "poll" /\ t = 4
    /\ ran = <<"gnss">>
    /\ num_overruns["vlog"] = 1 /\ overrun_amount["vlog"] = 1
    /\ next_update_time["vlog"] = 5 /\ last_update_time["vlog"] = 4
    /\ bb["agents"] = "radar" /\ upd["agents"] = 4

\* C28: the period of the looper of run_until_switch is the least dt > 0 of
\* the executors of the current pipeline's three phases and the always-run
\* set; when none of them has dt > 0, run_until_switch raises before any tick
\* and run is left with no component stopped, no exit reason recorded and the
\* logging manager open.
C28_LoopPeriod ==
    /\ pc = "ticking" =>
          /\ dt_min > 0
          /\ \E c \in Participants(current_pipeline) : dtcfg[c] = dt_min
          /\ \A c \in Participants(current_pipeline) : dtcfg[c] > 0 => dt_min <= dtcfg[c]
    /\ last = "enter" =>
          (pc = "crashed" <=> \A c \in Participants(current_pipeline) : dtcfg[c] = 0)
    /\ pc = "crashed" =>
          /\ \A c \in Comps : stopped[c] = 0
          /\ closed = 0 /\ exit_reasons = << >> /\ ran = << >>

C28_Witness ==
    /\ pc = "crashed" /\ last = "enter"
    /\ current_pipeline = "park"
    /\ dtcfg["gnss"] = 2
    /\ \A c \in Range(all_components) : started[c] = 1 /\ stopped[c] = 0

====
